---- MODULE Spec2Model ----
(***************************************************************************)
(* Model of wildcode/evaluate.py: the evaluation orchestration of the      *)
(* benchmark.  One process runs evaluate(); its main thread builds the     *)
(* jobs, hands them to a process pool, drains the completed futures and    *)
(* saves the results; the pool's workers run check_correctness; the        *)
(* stucking_checker thread polls the shared set `remainings`.  The files   *)
(* (results artifact, its backups, summary, ground-truth cache) outlive a  *)
(* process, so a later run of evaluate() finds what an earlier one left.   *)
(***************************************************************************)
EXTENDS Integers, Sequences, FiniteSets, TLC

\* ------------------------------------------------------------------ bounds
MaxSamples == 3        \* longest samples file
MaxRuns == 3           \* processes started one after another (StoreSpec)
MaxStoreSamples == 1   \* longest samples file under StoreSpec
MaxResults == 5        \* most results of a task in a stored document (SummarySpec)
MaxLiveSamples == 2    \* longest samples file under LiveSpec

\* the task ids a samples file may mention; the dataset holds some of them
Tasks == {"A", "B"}
Datasets == {{"A"}, {"A", "B"}}

\* ------------------------------------------------------ program constants
PASS == "pass"                     \* wildcode.eval.PASS
FAIL == "fail"                     \* any other status of untrusted_check
Ks == {1, 5, 10, 25, 100}          \* evaluate.py line 216

\* ------------------------------------------------------------- file values
NoFile == [kind |-> "absent"]
PartialFile == [kind |-> "partial"]   \* open(..., "w") done, dump cut short
JsonFile(body) == [kind |-> "json", body |-> body]
PklFile(body) == [kind |-> "pkl", body |-> body]
isfile(f) == f.kind # "absent"

NoWarn == [kind |-> "none"]

\* --------------------------------------------------------------- sequences
Range(s) == {s[i] : i \in 1..Len(s)}

RECURSIVE SeqsUpTo(_, _)
SeqsUpTo(S, n) ==
  IF n = 0 THEN {<<>>}
  ELSE LET shorter == SeqsUpTo(S, n - 1)
       IN shorter \cup {Append(s, x) : s \in {t \in shorter : Len(t) = n - 1}, x \in S}

Min(S) == CHOOSE x \in S : \A y \in S : x <= y

\* ------------------------------------------------ rationals (num, den > 0)
RECURSIVE GCD(_, _)
GCD(a, b) == IF b = 0 THEN a ELSE GCD(b, a % b)

Norm(q) ==
  LET g == GCD(IF q[1] < 0 THEN -q[1] ELSE q[1], q[2])
  IN IF g = 0 THEN <<0, 1>> ELSE <<q[1] \div g, q[2] \div g>>

RatAdd(p, q) == Norm(<<p[1] * q[2] + q[1] * p[2], p[2] * q[2]>>)
RatSub(p, q) == Norm(<<p[1] * q[2] - q[1] * p[2], p[2] * q[2]>>)
RatMul(p, q) == Norm(<<p[1] * q[1], p[2] * q[2]>>)
RatLeq(p, q) == p[1] * q[2] <= q[1] * p[2]

\* ------------------------------------------------------ pass@k estimator
\* prod_{i = lo}^{hi} (i - k) / i
RECURSIVE ProdRatio(_, _, _)
ProdRatio(lo, hi, k) ==
  IF lo > hi THEN <<1, 1>>
  ELSE RatMul(<<hi - k, hi>>, ProdRatio(lo, hi - 1, k))

\* the share of correct samples, whatever k
estimator_plain(n, c, k) == Norm(<<c, n>>)

\* wildcode.eval.estimate_pass_at_k for one task: n samples, c correct
estimator(n, c, k) ==
  IF n - c < k THEN <<1, 1>>
  ELSE RatSub(<<1, 1>>, ProdRatio(n - c + 1, n, k))

RECURSIVE RatSum(_)
RatSum(qs) == IF qs = <<>> THEN <<0, 1>> ELSE RatAdd(Head(qs), RatSum(Tail(qs)))

\* .mean() of the per-task estimates
mean(qs) == RatMul(RatSum(qs), <<1, Len(qs)>>)

\* lines 205-218: total, base_correct and the dict comprehension over k
total(results) == [i \in 1..Len(results.eval) |-> Len(results.eval[i].res)]

base_correct(results) ==
  [i \in 1..Len(results.eval) |->
     Cardinality({j \in 1..Len(results.eval[i].res) :
                    results.eval[i].res[j].status = PASS})]

\* the comprehension of lines 214-218 without its `if`
calc_pass_at_k_unfiltered(results) ==
  LET tot == total(results)
      bc == base_correct(results)
  IN [k \in Ks |-> mean([i \in 1..Len(tot) |-> estimator(tot[i], bc[i], k)])]

calc_pass_at_k(results) ==
  LET tot == total(results)
      bc == base_correct(results)
  IN [k \in {k \in Ks : Min(Range(tot)) >= k} |->
        mean([i \in 1..Len(tot) |-> estimator(tot[i], bc[i], k)])]

\* wildcode.eval.compatible_eval_result: rewrites only the task entries of
\* the old format that carry a "files" field; a document of the current
\* format (a list of results per task) passes unchanged
compatible_eval_result(results) == results

\* json.load of a file json.dump wrote completely
json_load(f) == f.body

\* ------------------------------------------------------------------- state
VARIABLES
  problems,        \* get_wildcodebench(): the task ids of the dataset
  samples,         \* load_solutions(flags.samples): the samples file
  hangs,           \* identifiers of the samples whose check never returns
  flags,           \* check_gt_only, check_solution_only
  run,             \* ordinal of the running process; stands for datetime.now()
  cacheFile,       \* CACHE_DIR/<hash>.pkl
  resultFile,      \* result_path
  summaryFile,     \* summary_path
  backups,         \* backups[i]: result_path followed by i times ".bak"
  pc,              \* where the main thread of evaluate() is
  fault,           \* the exception propagating out of evaluate(), or "none"
  loaded,          \* results came from result_path (lines 111-116)
  results,         \* the results document being built or loaded
  expected_time,   \* the task ids get_groundtruth has a time for
  trusted_calls,   \* calls of trusted_exec made by this process
  pos,             \* samples consumed by the loop of line 140
  completion_id,   \* Counter(): task id -> next completion index
  n_samples,
  remainings,      \* set of outstanding identifiers
  futures,         \* the submitted jobs, in submission order
  eval_results,    \* defaultdict(list): task id -> results, in key order
  pass_at_k,
  drop_warnings,   \* warnings of line 144
  save_warning,    \* the save step whose failure line 239/250 warned of
  wpc,             \* where the stucking_checker thread is
  last_size,
  stuck_warning,   \* the warning of line 180, if the thread's last step wrote it
  warned,          \* the thread has written a warning
  \* history, read by no action
  out_of_order,    \* some list was not in submission order before line 191
  first_poll,      \* what the first wake-up of the thread found
  cache_removed,   \* line 41 removed the cache file in this process
  save_fault,      \* the save step at which the system call failed
  artifact_summary \* pass_at_k of the process that last wrote result_path

files == <<cacheFile, resultFile, summaryFile, backups>>
inputs == <<problems, samples, hangs>>
mainvars == <<pc, fault, loaded, results, expected_time, trusted_calls, pos,
              completion_id, n_samples, remainings, futures, eval_results,
              pass_at_k, drop_warnings, save_warning>>
wvars == <<wpc, last_size, stuck_warning, warned>>
history == <<out_of_order, first_poll, cache_removed, save_fault, artifact_summary>>
vars == <<inputs, flags, run, files, mainvars, wvars, history>>

NumBak == MaxRuns + 1                 \* backup names the model tracks
TaskOrder == <<"A", "B">>             \* iteration order of problems.items()
NoResults == [date |-> 0, eval |-> <<>>]
NoPassAtK == [k \in {} |-> <<0, 1>>]
FlagSets == [check_gt_only : BOOLEAN, check_solution_only : BOOLEAN]

\* line i of the samples file: load_solutions gives every sample its own
\* "_identifier"; the text of its solution is named by the line as well
MkSamples(ts) ==
  [i \in 1..Len(ts) |-> [task_id |-> ts[i], _identifier |-> i, solution |-> i]]

FreshProcess ==
  /\ pc = "start"
  /\ fault = "none"
  /\ loaded = FALSE
  /\ results = NoResults
  /\ expected_time = {}
  /\ trusted_calls = 0
  /\ pos = 0
  /\ completion_id = [t \in Tasks |-> 0]
  /\ n_samples = 0
  /\ remainings = {}
  /\ futures = <<>>
  /\ eval_results = <<>>
  /\ pass_at_k = NoPassAtK
  /\ drop_warnings = 0
  /\ save_warning = "none"
  /\ wpc = "idle"
  /\ last_size = 0
  /\ stuck_warning = NoWarn
  /\ warned = FALSE
  /\ out_of_order = FALSE
  /\ first_poll = "none"
  /\ cache_removed = FALSE
  /\ save_fault = "none"

DefaultFlags == [check_gt_only |-> FALSE, check_solution_only |-> FALSE]
NoBackups == [i \in 1..NumBak |-> NoFile]

\* a backup file some earlier use of the directory left behind
StaleFile == JsonFile(NoResults)

\* One process, started without --check-gt-only and --check-solution-only
\* on a machine that holds no file of an earlier run.
Init ==
  /\ problems \in Datasets
  /\ samples \in {MkSamples(ts) : ts \in SeqsUpTo(Tasks, MaxSamples)}
  /\ flags = DefaultFlags
  /\ hangs = {}
  /\ run = 1
  /\ cacheFile = NoFile
  /\ resultFile = NoFile
  /\ summaryFile = NoFile
  /\ backups = NoBackups
  /\ artifact_summary = NoPassAtK
  /\ FreshProcess

\* The first of several processes on a dataset of one task and a shorter
\* samples file: any flags, no file of an earlier run but, possibly, a
\* stale result_path + ".bak.bak", so that the backup names have a gap.
StoreInit ==
  /\ problems = {"A"}
  /\ samples \in {MkSamples(ts) : ts \in SeqsUpTo(Tasks, MaxStoreSamples)}
  /\ flags \in FlagSets
  /\ hangs = {}
  /\ run = 1
  /\ cacheFile = NoFile
  /\ resultFile = NoFile
  /\ summaryFile = NoFile
  /\ backups \in {NoBackups, [NoBackups EXCEPT ![2] = StaleFile]}
  /\ artifact_summary = NoPassAtK
  /\ FreshProcess

\* The results document a finished process left for the samples file `ss`
\* whose checks ended with the statuses `st`: per task, in the order of the
\* tasks' first samples, the entries of its samples in file order.
DocumentOf(ss, st) ==
  LET order == SelectSeq(TaskOrder, LAMBDA t : \E i \in 1..Len(ss) : ss[i].task_id = t)
      Index(t) == SelectSeq([i \in 1..Len(ss) |-> i], LAMBDA i : ss[i].task_id = t)
  IN [date |-> 1,
      eval |-> [n \in 1..Len(order) |->
                  [task_id |-> order[n],
                   res |-> [j \in 1..Len(Index(order[n])) |->
                              [task_id |-> order[n],
                               solution |-> ss[Index(order[n])[j]].solution,
                               status |-> st[Index(order[n])[j]]]]]]]

\* samples files of a dataset {"A"} or {"A", "B"}: a samples of A, then b of B
StoredSamples ==
  {MkSamples([i \in 1..(a + b) |-> IF i <= a THEN "A" ELSE "B"]) :
     a \in 1..MaxResults, b \in 0..MaxResults}

\* A process started on a samples file whose results an earlier process has
\* saved: result_path and summary_path hold its document and its summary.
SummaryInit ==
  /\ samples \in StoredSamples
  /\ problems = {samples[i].task_id : i \in 1..Len(samples)}
  /\ hangs = {}
  /\ flags = DefaultFlags
  /\ run = 2
  /\ cacheFile = PklFile(problems)
  /\ \E st \in [1..Len(samples) -> {PASS, FAIL}] :
       /\ resultFile = JsonFile(DocumentOf(samples, st))
       /\ artifact_summary = calc_pass_at_k(DocumentOf(samples, st))
  /\ summaryFile = JsonFile(artifact_summary)
  /\ backups = NoBackups
  /\ FreshProcess

\* ------------------------------------------------ evaluate(): main thread
\* An exception leaves evaluate().  Outside the `with` block nothing holds
\* it back; inside, ProcessPoolExecutor.__exit__ first waits for the jobs.
Raise_swallowed(e) == /\ fault' = fault
                      /\ pc' = "gt_done"

Raise(e) == /\ fault' = e
            /\ pc' = "crashed"

RaiseInPool(e) == /\ fault' = e
                  /\ pc' = "pool_exit"

\* lines 96-117.  With check_gt_only the samples path is "__dummy__.jsonl",
\* whose results artifact no run ever writes.
Start ==
  /\ pc = "start"
  /\ IF ~flags.check_gt_only /\ isfile(resultFile)
     THEN IF resultFile.kind = "json"
          THEN /\ results' = compatible_eval_result(json_load(resultFile))
               /\ loaded' = TRUE
               /\ pc' = "passk"
               /\ UNCHANGED fault
          ELSE /\ Raise("JSONDecodeError")
               /\ UNCHANGED <<results, loaded>>
     ELSE /\ pc' = "gt"
          /\ UNCHANGED <<fault, results, loaded>>
  /\ UNCHANGED <<inputs, flags, run, files, expected_time, trusted_calls, pos,
                 completion_id, n_samples, remainings, futures, eval_results,
                 pass_at_k, drop_warnings, save_warning, wvars, history>>

\* lines 118-122 and 38-47: the head of get_groundtruth
BeginGroundtruth ==
  /\ pc = "gt"
  /\ IF flags.check_solution_only
     THEN /\ pc' = "gt_done"
          /\ UNCHANGED <<cacheFile, expected_time, cache_removed>>
     ELSE IF isfile(cacheFile) /\ ~flags.check_gt_only
          THEN /\ expected_time' = cacheFile.body
               /\ pc' = "gt_done"
               /\ UNCHANGED <<cacheFile, cache_removed>>
          ELSE /\ cacheFile' = NoFile      \* os.remove, when it was there
               /\ cache_removed' = isfile(cacheFile)
               /\ expected_time' = {}
               /\ pc' = "gt_exec"
  /\ UNCHANGED <<inputs, flags, run, resultFile, summaryFile, backups, fault,
                 loaded, results, trusted_calls, pos, completion_id, n_samples,
                 remainings, futures, eval_results, pass_at_k, drop_warnings,
                 save_warning, wvars, out_of_order, first_poll, save_fault,
                 artifact_summary>>

\* the problems the loop of line 51 has still to run, in dataset order
Pending == SelectSeq(TaskOrder, LAMBDA t : t \in problems /\ t \notin expected_time)

\* lines 51-56: one trusted_exec, which returns a time or raises
TrustedExec(ok) ==
  /\ pc = "gt_exec"
  /\ Pending # <<>>
  /\ trusted_calls' = trusted_calls + 1
  /\ IF ok
     THEN /\ expected_time' = expected_time \cup {Head(Pending)}
          /\ UNCHANGED <<pc, fault>>
     ELSE /\ Raise("TrustedExecError")
          /\ UNCHANGED expected_time
  /\ UNCHANGED <<inputs, flags, run, files, loaded, results, pos, completion_id,
                 n_samples, remainings, futures, eval_results, pass_at_k,
                 drop_warnings, save_warning, wvars, history>>

\* lines 59-62
WriteCache ==
  /\ pc = "gt_exec"
  /\ Pending = <<>>
  /\ cacheFile' = PklFile(expected_time)
  /\ pc' = "gt_done"
  /\ UNCHANGED <<inputs, flags, run, resultFile, summaryFile, backups, fault,
                 loaded, results, expected_time, trusted_calls, pos,
                 completion_id, n_samples, remainings, futures, eval_results,
                 pass_at_k, drop_warnings, save_warning, wvars, history>>

\* lines 124-137
AfterGroundtruth ==
  /\ pc = "gt_done"
  /\ IF flags.check_gt_only
     THEN /\ pc' = "returned"
          /\ UNCHANGED results
     ELSE /\ results' = [date |-> run, eval |-> <<>>]
          /\ pc' = "read"
  /\ UNCHANGED <<inputs, flags, run, files, fault, loaded, expected_time,
                 trusted_calls, pos, completion_id, n_samples, remainings,
                 futures, eval_results, pass_at_k, drop_warnings, save_warning,
                 wvars, history>>

\* every task id taken for one of the dataset
in_problems_any(task_id) == TRUE

\* line 143
in_problems(task_id) == task_id \in problems

\* lines 156-165: the job handed to the pool; the worker has not returned
Job(sample, cid) ==
  [completion_id |-> cid,
   task_id |-> sample.task_id,
   _identifier |-> sample._identifier,
   solution |-> sample.solution,
   state |-> "running",
   yielded |-> FALSE]

\* one counter for all tasks
Count_shared(counter, task_id) == [t \in Tasks |-> counter[t] + 1]

\* line 166
Count(counter, task_id) == [counter EXCEPT ![task_id] = @ + 1]

\* lines 140-167: one turn of the loop over the samples
ReadSample ==
  /\ pc = "read"
  /\ pos < Len(samples)
  /\ pos' = pos + 1
  /\ LET sample == samples[pos + 1]
     IN IF ~in_problems(sample.task_id)
        THEN /\ drop_warnings' = drop_warnings + 1
             /\ UNCHANGED <<remainings, futures, completion_id, n_samples>>
        ELSE /\ remainings' = remainings \cup {sample._identifier}
             /\ futures' = Append(futures,
                                  Job(sample, completion_id[sample.task_id]))
             /\ completion_id' = Count(completion_id, sample.task_id)
             /\ n_samples' = n_samples + 1
             /\ UNCHANGED drop_warnings
  /\ UNCHANGED <<inputs, flags, run, files, pc, fault, loaded, results,
                 expected_time, trusted_calls, eval_results, pass_at_k,
                 save_warning, wvars, history>>

\* len(completion_id): a Counter holds the keys that were incremented
CounterKeys(counter) == {t \in Tasks : counter[t] > 0}

\* lines 169-170
AssertsHold ==
  /\ n_samples = Cardinality(remainings)
  /\ Cardinality(CounterKeys(completion_id)) = Cardinality(problems)

\* lines 169-182: the samples are exhausted; the asserts, then the thread
CheckAsserts ==
  /\ pc = "read"
  /\ pos = Len(samples)
  /\ IF AssertsHold
     THEN /\ pc' = "drain"
          /\ wpc' = "w_while"
          /\ UNCHANGED fault
     ELSE /\ RaiseInPool("AssertionError")
          /\ UNCHANGED wpc
  /\ UNCHANGED <<inputs, flags, run, files, loaded, results, expected_time,
                 trusted_calls, pos, completion_id, n_samples, remainings,
                 futures, eval_results, pass_at_k, drop_warnings, save_warning,
                 last_size, stuck_warning, warned, history>>

\* ------------------------------------------------- the pool's worker side
\* lines 64-87: check_correctness of job j comes to its end in a worker:
\* untrusted_check returns a status; or the call ends without a result (an
\* exception gets out of it, or the worker process dies) and the future
\* holds the exception in place of a result.  Neither check_correctness nor
\* the drain loop has a try.
Complete(j, outcome) ==
  /\ j \in 1..Len(futures)
  /\ futures[j].state = "running"
  /\ futures[j]._identifier \notin hangs
  /\ futures' = [futures EXCEPT ![j].state = outcome]
  /\ UNCHANGED <<inputs, flags, run, files, pc, fault, loaded, results,
                 expected_time, trusted_calls, pos, completion_id, n_samples,
                 remainings, eval_results, pass_at_k, drop_warnings,
                 save_warning, wvars, history>>

\* ------------------------------------------------------- the drain loop
\* lines 73-78 and 79: what future.result() returns
Result(job) ==
  [completion_id |-> job.completion_id,
   task_id |-> job.task_id,
   _identifier |-> job._identifier,
   solution |-> job.solution,
   base |-> job.state]

\* the set is left as it was
remove_nothing(set, identifier) == set

\* line 186: set.remove
remove(set, identifier) == set \ {identifier}

\* the list of the task is assigned, not appended to
append_overwriting(groups, result) ==
  IF \E i \in 1..Len(groups) : groups[i].task_id = result.task_id
  THEN [i \in 1..Len(groups) |->
          IF groups[i].task_id = result.task_id
          THEN [groups[i] EXCEPT !.list = <<result>>]
          ELSE groups[i]]
  ELSE Append(groups, [task_id |-> result.task_id, list |-> <<result>>])

\* line 187: eval_results[task_id].append(result); a new key goes last
append(groups, result) ==
  IF \E i \in 1..Len(groups) : groups[i].task_id = result.task_id
  THEN [i \in 1..Len(groups) |->
          IF groups[i].task_id = result.task_id
          THEN [groups[i] EXCEPT !.list = Append(@, result)]
          ELSE groups[i]]
  ELSE Append(groups, [task_id |-> result.task_id, list |-> <<result>>])

\* lines 184-187: as_completed hands over a finished future not handed over
\* before, in no particular order
Receive(j) ==
  /\ pc = "drain"
  /\ j \in 1..Len(futures)
  /\ futures[j].state # "running"
  /\ ~futures[j].yielded
  /\ futures' = [futures EXCEPT ![j].yielded = TRUE]
  /\ IF futures[j].state = "raised"
     THEN /\ RaiseInPool("CheckerError")         \* future.result() re-raises
          /\ UNCHANGED <<remainings, eval_results>>
     ELSE IF futures[j]._identifier \notin remainings
          THEN /\ RaiseInPool("KeyError")
               /\ UNCHANGED <<remainings, eval_results>>
          ELSE /\ remainings' = remove(remainings, futures[j]._identifier)
               /\ eval_results' = append(eval_results, Result(futures[j]))
               /\ UNCHANGED <<pc, fault>>
  /\ UNCHANGED <<inputs, flags, run, files, loaded, results, expected_time,
                 trusted_calls, pos, completion_id, n_samples, pass_at_k,
                 drop_warnings, save_warning, wvars, history>>

\* the `with` block is left by an exception: shutdown(wait=True) returns
\* when no job is running any more, and the exception goes on
PoolExit ==
  /\ pc = "pool_exit"
  /\ \A j \in 1..Len(futures) : futures[j].state # "running"
  /\ pc' = "crashed"
  /\ UNCHANGED <<inputs, flags, run, files, fault, loaded, results,
                 expected_time, trusted_calls, pos, completion_id, n_samples,
                 remainings, futures, eval_results, pass_at_k, drop_warnings,
                 save_warning, wvars, history>>

\* line 191: list.sort(key=completion_id), a stable sort
RECURSIVE insort(_, _)
insort(x, s) ==
  IF s = <<>> THEN <<x>>
  ELSE IF x.completion_id < Head(s).completion_id
       THEN <<x>> \o s
       ELSE <<Head(s)>> \o insort(x, Tail(s))

\* the lists are left in completion order
sort_skipped(list) == list

RECURSIVE sort(_)
sort(list) ==
  IF list = <<>> THEN <<>>
  ELSE insort(list[Len(list)], sort(SubSeq(list, 1, Len(list) - 1)))

\* lines 194-202
Entry(res) == [task_id |-> res.task_id, solution |-> res.solution, status |-> res.base]

\* lines 184 and 189-202: the stream of futures is exhausted; every list is
\* sorted in place and the document assembled
Aggregate ==
  /\ pc = "drain"
  /\ \A j \in 1..Len(futures) : futures[j].yielded
  /\ eval_results' = [i \in 1..Len(eval_results) |->
                        [eval_results[i] EXCEPT !.list = sort(@)]]
  /\ results' = [results EXCEPT !.eval =
                   [i \in 1..Len(eval_results) |->
                      [task_id |-> eval_results[i].task_id,
                       res |-> [n \in 1..Len(eval_results[i].list) |->
                                  Entry(sort(eval_results[i].list)[n])]]]]
  /\ pc' = "passk"
  /\ out_of_order' = \E i \in 1..Len(eval_results) :
                        eval_results[i].list # sort(eval_results[i].list)
  /\ UNCHANGED <<inputs, flags, run, files, fault, loaded, expected_time,
                 trusted_calls, pos, completion_id, n_samples, remainings,
                 futures, pass_at_k, drop_warnings, save_warning, wvars,
                 first_poll, cache_removed, save_fault, artifact_summary>>

\* lines 204-221; total.min() of an empty array raises
CalcPassAtK ==
  /\ pc = "passk"
  /\ IF results.eval = <<>>
     THEN /\ Raise("ValueError")
          /\ UNCHANGED pass_at_k
     ELSE /\ pass_at_k' = calc_pass_at_k(results)
          /\ pc' = "save"
          /\ UNCHANGED fault
  /\ UNCHANGED <<inputs, flags, run, files, loaded, results, expected_time,
                 trusted_calls, pos, completion_id, n_samples, remainings,
                 futures, eval_results, drop_warnings, save_warning, wvars, history>>

\* ------------------------------------------------------- the save phase
\* no except clause: the exception of the failed step leaves evaluate()
SaveFailed_propagates(step) ==
  /\ save_warning' = save_warning
  /\ fault' = "OSError"
  /\ pc' = "crashed"

\* lines 238-240 and 249-251: the except clause of the save phase
SaveFailed(step) ==
  /\ save_warning' = step
  /\ pc' = "returned"
  /\ UNCHANGED fault

\* a system call of the save phase returns, and the main thread goes on to
\* `next`, or it raises, and the except clause has the exception
SaveStep(step, ok, next) ==
  IF ok
  THEN /\ pc' = next
       /\ UNCHANGED <<fault, save_warning, save_fault>>
  ELSE /\ save_fault' = step
       /\ SaveFailed(step)

\* line 227 without the loop of lines 228-229
new_path_bak(bk) == 1

\* lines 227-229: the first name among .bak, .bak.bak, ... that is no file
new_path(bk) == Min({i \in 1..NumBak : ~isfile(bk[i])})

\* line 224
SaveBegin ==
  /\ pc = "save"
  /\ pc' = IF isfile(resultFile) THEN "rename" ELSE "makedirs"
  /\ UNCHANGED <<inputs, flags, run, files, fault, loaded, results,
                 expected_time, trusted_calls, pos, completion_id, n_samples,
                 remainings, futures, eval_results, pass_at_k, drop_warnings,
                 save_warning, wvars, history>>

\* lines 227-231
Rename(ok) ==
  /\ pc = "rename"
  /\ SaveStep("rename", ok, "makedirs")
  /\ IF ok
     THEN /\ backups' = [backups EXCEPT ![new_path(backups)] = resultFile]
          /\ resultFile' = NoFile
     ELSE UNCHANGED <<resultFile, backups>>
  /\ UNCHANGED <<inputs, flags, run, cacheFile, summaryFile, loaded, results,
                 expected_time, trusted_calls, pos, completion_id, n_samples,
                 remainings, futures, eval_results, pass_at_k, drop_warnings,
                 wvars, out_of_order, first_poll, cache_removed, artifact_summary>>

\* lines 232 and 243
Makedirs(ok) ==
  /\ pc = "makedirs"
  /\ SaveStep("makedirs", ok, "chmod")
  /\ UNCHANGED <<inputs, flags, run, files, loaded, results, expected_time,
                 trusted_calls, pos, completion_id, n_samples, remainings,
                 futures, eval_results, pass_at_k, drop_warnings, wvars,
                 out_of_order, first_poll, cache_removed, artifact_summary>>

\* lines 233 and 244
Chmod(ok) ==
  /\ pc = "chmod"
  /\ SaveStep("chmod", ok, "write_result")
  /\ UNCHANGED <<inputs, flags, run, files, loaded, results, expected_time,
                 trusted_calls, pos, completion_id, n_samples, remainings,
                 futures, eval_results, pass_at_k, drop_warnings, wvars,
                 out_of_order, first_poll, cache_removed, artifact_summary>>

\* what `with open(path, "w") as f: json.dump(body, f)` leaves at the path:
\* open fails and the path is as before; open creates or truncates the file
\* and the dump is cut short; or the document is written
Written(before, body, outcome) ==
  CASE outcome = "ok" -> JsonFile(body)
    [] outcome = "dump" -> PartialFile
    [] outcome = "open" -> before

WriteOutcomes == {"ok", "open", "dump"}

\* lines 234-235 and 245-246
WriteResult(outcome) ==
  /\ pc = "write_result"
  /\ SaveStep("write_result", outcome = "ok", "write_summary")
  /\ resultFile' = Written(resultFile, results, outcome)
  /\ artifact_summary' = IF outcome = "open" THEN artifact_summary ELSE pass_at_k
  /\ UNCHANGED <<inputs, flags, run, cacheFile, summaryFile, backups, loaded,
                 results, expected_time, trusted_calls, pos, completion_id,
                 n_samples, remainings, futures, eval_results, pass_at_k,
                 drop_warnings, wvars, out_of_order, first_poll, cache_removed>>

\* lines 236-237 and 247-248
WriteSummary(outcome) ==
  /\ pc = "write_summary"
  /\ SaveStep("write_summary", outcome = "ok", "returned")
  /\ summaryFile' = Written(summaryFile, pass_at_k, outcome)
  /\ UNCHANGED <<inputs, flags, run, cacheFile, resultFile, backups, loaded,
                 results, expected_time, trusted_calls, pos, completion_id,
                 n_samples, remainings, futures, eval_results, pass_at_k,
                 drop_warnings, wvars, out_of_order, first_poll, cache_removed,
                 artifact_summary>>

\* ---------------------------------------------- stucking_checker thread
\* Each action holds one read of the shared set: the main thread may remove
\* identifiers between any two of them.  last_size is set back to 0 where
\* the code goes on to line 173: line 174 overwrites it before any use.

\* line 173: while remainings
WWhile ==
  /\ wpc = "w_while"
  /\ wpc' = IF remainings # {} THEN "w_size" ELSE "w_done"
  /\ stuck_warning' = NoWarn
  /\ UNCHANGED <<inputs, flags, run, files, mainvars, last_size, warned, history>>

\* lines 174-175: last_size = len(remainings), and the thread sleeps
WSize ==
  /\ wpc = "w_size"
  /\ last_size' = Cardinality(remainings)
  /\ wpc' = "w_sleep"
  /\ UNCHANGED <<inputs, flags, run, files, mainvars, stuck_warning, warned,
                 history>>

\* every poll taken for one with progress
size_changed_always(last, set) == TRUE

\* line 176, left operand of the `or`
size_changed(last, set) == last # Cardinality(set)

\* the `or len(remainings) == 0` left out
is_empty_never(set) == FALSE

\* line 176, right operand of the `or`
is_empty(set) == Cardinality(set) = 0

\* lines 175-176: the sleep is over; the left operand of the `or` is read
WWake ==
  /\ wpc = "w_sleep"
  /\ IF size_changed(last_size, remainings)
     THEN /\ wpc' = "w_while"
          /\ last_size' = 0
     ELSE /\ wpc' = "w_empty"
          /\ UNCHANGED last_size
  /\ first_poll' = IF first_poll # "none" THEN first_poll
                   ELSE IF remainings = {} THEN "cleared" ELSE "outstanding"
  /\ UNCHANGED <<inputs, flags, run, files, mainvars, stuck_warning, warned,
                 out_of_order, cache_removed, save_fault, artifact_summary>>

\* line 176: the right operand of the `or`, a second read of the set
WEmpty ==
  /\ wpc = "w_empty"
  /\ IF is_empty(remainings)
     THEN /\ wpc' = "w_while"
          /\ last_size' = 0
     ELSE /\ wpc' = "w_warn"
          /\ UNCHANGED last_size
  /\ UNCHANGED <<inputs, flags, run, files, mainvars, stuck_warning, warned,
                 history>>

\* line 180: f"{len(remainings)} samples to be tested: {remainings}"
Warning(set) == [kind |-> "stuck", n |-> Cardinality(set), names |-> set]

\* lines 179-180: both warnings; the second reads the set once more
WWarn ==
  /\ wpc = "w_warn"
  /\ stuck_warning' = Warning(remainings)
  /\ warned' = TRUE
  /\ wpc' = "w_while"
  /\ last_size' = 0
  /\ UNCHANGED <<inputs, flags, run, files, mainvars, history>>

\* ------------------------------------------------------ the next process
\* The process is over when the main thread has left evaluate() and the
\* stucking_checker thread, which is no daemon, has ended.  evaluate() is
\* then started again on the same samples file, with flags of its own.
NextRun ==
  /\ pc \in {"returned", "crashed"}
  /\ wpc \in {"idle", "w_done"}
  /\ run < MaxRuns
  /\ run' = run + 1
  /\ flags' \in FlagSets
  /\ pc' = "start"
  /\ fault' = "none"
  /\ loaded' = FALSE
  /\ results' = NoResults
  /\ expected_time' = {}
  /\ trusted_calls' = 0
  /\ pos' = 0
  /\ completion_id' = [t \in Tasks |-> 0]
  /\ n_samples' = 0
  /\ remainings' = {}
  /\ futures' = <<>>
  /\ eval_results' = <<>>
  /\ pass_at_k' = NoPassAtK
  /\ drop_warnings' = 0
  /\ save_warning' = "none"
  /\ wpc' = "idle"
  /\ last_size' = 0
  /\ stuck_warning' = NoWarn
  /\ warned' = FALSE
  /\ out_of_order' = FALSE
  /\ first_poll' = "none"
  /\ cache_removed' = FALSE
  /\ save_fault' = "none"
  /\ UNCHANGED <<inputs, files, artifact_summary>>

\* ---------------------------------------------------------- specifications
\* The steps of one process; `oks` and `outcomes` are the ways the system
\* calls of the save phase may end.
Process(oks, outcomes) ==
  \/ Start
  \/ BeginGroundtruth
  \/ \E ok \in BOOLEAN : TrustedExec(ok)
  \/ WriteCache
  \/ AfterGroundtruth
  \/ ReadSample
  \/ CheckAsserts
  \/ \E j \in 1..MaxSamples, outcome \in {PASS, FAIL, "raised"} : Complete(j, outcome)
  \/ \E j \in 1..MaxSamples : Receive(j)
  \/ PoolExit
  \/ Aggregate
  \/ CalcPassAtK
  \/ SaveBegin
  \/ \E ok \in oks : Makedirs(ok)
  \/ \E ok \in oks : Chmod(ok)
  \/ \E outcome \in outcomes : WriteResult(outcome)
  \/ \E outcome \in outcomes : WriteSummary(outcome)
  \/ WWhile
  \/ WSize
  \/ WWake
  \/ WEmpty
  \/ WWarn

\* One process on a clean output directory whose file system does not fail:
\* result_path is no file, so the rename of line 230 is never reached.
Next == Process({TRUE}, {"ok"})

Spec == Init /\ [][Next]_vars

\* The steps of the main thread up to the end of the drain loop, and the
\* steps of the stucking_checker thread
Main ==
  \/ Start \/ BeginGroundtruth \/ TrustedExec(TRUE) \/ WriteCache
  \/ AfterGroundtruth \/ ReadSample \/ CheckAsserts
  \/ \E j \in 1..MaxSamples : Receive(j)
  \/ PoolExit \/ Aggregate

Watch == WWhile \/ WSize \/ WWake \/ WEmpty \/ WWarn

\* One process of which some checks may hang, on a dataset of one task.
LiveInit ==
  /\ problems = {"A"}
  /\ samples \in {MkSamples(ts) : ts \in SeqsUpTo(Tasks, MaxLiveSamples)}
  /\ hangs \in SUBSET {samples[i]._identifier : i \in 1..Len(samples)}
  /\ flags = DefaultFlags
  /\ run = 1
  /\ cacheFile = NoFile
  /\ resultFile = NoFile
  /\ summaryFile = NoFile
  /\ backups = NoBackups
  /\ artifact_summary = NoPassAtK
  /\ FreshProcess

\* Both threads are scheduled again and again, time.sleep(120) ends, and a
\* check that does not hang comes to its end.  Nothing is assumed of the
\* main thread once it is past the drain loop.
LiveSpec ==
  /\ LiveInit
  /\ [][Next]_vars
  /\ WF_vars(Main)
  /\ WF_vars(Watch)
  /\ \A j \in 1..MaxSamples :
       WF_vars(\E outcome \in {PASS, FAIL, "raised"} : Complete(j, outcome))

\* Processes one after another on the same samples file and output paths;
\* every system call of the save phase may fail.
StoreNext ==
  \/ Process(BOOLEAN, WriteOutcomes)
  \/ \E ok \in BOOLEAN : Rename(ok)
  \/ NextRun

StoreSpec == StoreInit /\ [][StoreNext]_vars

\* One process that finds the document of an earlier process, on a file
\* system that does not fail: the resume path of lines 111-116, pass@k and
\* the save with its backup.
SummaryNext ==
  \/ Start
  \/ CalcPassAtK
  \/ SaveBegin
  \/ Rename(TRUE)
  \/ Makedirs(TRUE)
  \/ Chmod(TRUE)
  \/ WriteResult("ok")
  \/ WriteSummary("ok")

SummarySpec == SummaryInit /\ [][SummaryNext]_vars

\* ------------------------------------------------------------------ claims
\* the main thread of a process that computed its results is past line 202
AfterDrain ==
  /\ ~loaded
  /\ pc \in {"passk", "save", "rename", "makedirs", "chmod", "write_result",
             "write_summary", "returned"}
  /\ ~flags.check_gt_only

\* the jobs submitted for a task, in submission order
JobsOf(t) == SelectSeq(futures, LAMBDA f : f.task_id = t)

\* the result list the document holds for a task
ResultsOf(t) ==
  IF \E i \in 1..Len(results.eval) : results.eval[i].task_id = t
  THEN results.eval[CHOOSE i \in 1..Len(results.eval) : results.eval[i].task_id = t].res
  ELSE <<>>

\* C1: in a process that found no results artifact and whose drain loop came
\* to its end, the document holds one list per task, as long as the jobs
\* submitted for the task are many, and the result of every job is in the
\* list of its task exactly once
C1_OneEntryPerJob ==
  AfterDrain =>
    /\ \A i, j \in 1..Len(results.eval) :
         results.eval[i].task_id = results.eval[j].task_id => i = j
    /\ \A t \in Tasks : Len(ResultsOf(t)) = Len(JobsOf(t))
    /\ \A j \in 1..Len(futures) :
         LET res == ResultsOf(futures[j].task_id)
         IN Cardinality({n \in 1..Len(res) : res[n].solution = futures[j].solution}) = 1

\* three jobs of two tasks were drained
C1_Witness ==
  /\ AfterDrain
  /\ Len(futures) >= 3
  /\ Len(results.eval) = 2

\* C2: whatever the order in which the jobs completed, the final list of a
\* task holds the results of the task's jobs in submission order, which is
\* the order of the completion indices 0, 1, ...
C2_SubmissionOrder ==
  AfterDrain =>
    \A i \in 1..Len(results.eval) :
      LET jobs == JobsOf(results.eval[i].task_id)
      IN /\ results.eval[i].res =
              [n \in 1..Len(jobs) |->
                 [task_id |-> jobs[n].task_id,
                  solution |-> jobs[n].solution,
                  status |-> jobs[n].state]]
         /\ \A n \in 1..Len(eval_results[i].list) :
              eval_results[i].list[n].completion_id = n - 1

\* the results of some task had arrived in another order than submitted
C2_Witness ==
  /\ AfterDrain
  /\ out_of_order

\* the jobs whose result the drain loop has received
Received == {j \in 1..Len(futures) :
               futures[j].yielded /\ futures[j].state \in {PASS, FAIL}}

\* C3: an identifier is in the outstanding set from the submission of its
\* job to the step in which the drain loop receives the job's result, and
\* never after; no removal finds its identifier missing
C3_RemovedOnceOnReceipt ==
  /\ remainings = {futures[j]._identifier : j \in (1..Len(futures)) \ Received}
  /\ \A j \in Received : \A i \in 1..Len(futures) :
       futures[i]._identifier = futures[j]._identifier => i = j
  /\ fault # "KeyError"

\* one result is in, another job is still outstanding
C3_Witness ==
  /\ pc = "drain"
  /\ Received # {}
  /\ remainings # {}

\* the samples read so far whose task is in the dataset
ValidRead == SelectSeq(SubSeq(samples, 1, pos), LAMBDA sample : sample.task_id \in problems)

RECURSIVE SumOver(_, _)
SumOver(counter, ts) ==
  IF ts = {} THEN 0
  ELSE LET t == CHOOSE x \in ts : TRUE
       IN counter[t] + SumOver(counter, ts \ {t})

\* C4: the jobs are the samples of known tasks, one for one and in order; a
\* sample of an unknown task leaves a warning and nothing else, and the loop
\* goes on; the jobs are as many as the per-task counters add up to
C4_UnknownTaskDropped ==
  /\ Len(futures) = Len(ValidRead)
  /\ \A i \in 1..Len(futures) : futures[i]._identifier = ValidRead[i]._identifier
  /\ n_samples = Len(ValidRead)
  /\ SumOver(completion_id, Tasks) = Len(ValidRead)
  /\ \A t \in Tasks \ problems : completion_id[t] = 0
  /\ drop_warnings = pos - Len(ValidRead)
  /\ pc = "read" => Cardinality(remainings) = Len(ValidRead)
  /\ 0 < pos /\ pos < Len(samples) => pc = "read"

\* the whole file is read: a sample was dropped, two became jobs
C4_Witness ==
  /\ pc = "drain"
  /\ pos = Len(samples)
  /\ drop_warnings > 0
  /\ Len(futures) >= 2

\* the step in which the thread writes the warning of line 180
WarnStep == wpc = "w_warn" /\ wpc' = "w_while"

\* C5: the thread writes a warning only when the outstanding set is not
\* empty and as large as line 174 found it, and the warning names a set of
\* identifiers that is not empty and still outstanding
C5_WarningOnlyWhenStalled ==
  [][WarnStep =>
       /\ remainings # {}
       /\ Cardinality(remainings) = last_size
       /\ stuck_warning'.names # {}
       /\ stuck_warning'.names \subseteq remainings']_vars

\* C6: once the outstanding set is empty the thread writes no warning and
\* does not enter the body of its loop again
C6_QuietOnceEmpty ==
  [][remainings = {} =>
       /\ ~WarnStep
       /\ wpc' = "w_size" => wpc = "w_size"]_vars

\* C7: when the first sleep of the thread ends on an empty outstanding set,
\* or the thread never sleeps, the process writes no warning of line 180
C7_NoWarningWhenClearedEarly ==
  first_poll \in {"none", "cleared"} => ~warned

\* the thread woke up once, on an empty set, and has ended
C7_Witness ==
  /\ first_poll = "cleared"
  /\ wpc = "w_done"
  /\ pc = "returned"

\* backups that a save of one of the processes made
Rotated == {i \in 1..NumBak : isfile(backups[i]) /\ backups[i] # StaleFile}

\* the first of .bak, .bak.bak, ... that names no file
FirstUnused(bk) ==
  CHOOSE i \in 1..NumBak : ~isfile(bk[i]) /\ \A j \in 1..(i - 1) : isfile(bk[j])

\* C8: no step changes or removes a backup file that exists; the results
\* file, where it exists, changes only by being renamed to the first unused
\* backup name; and a save that completes after two such renames leaves
\* .bak, .bak.bak and the results file in place
C8_RotationNeverOverwrites ==
  [][/\ \A i \in 1..NumBak : isfile(backups[i]) => backups'[i] = backups[i]
     /\ (isfile(resultFile) /\ resultFile' # resultFile) =>
          /\ resultFile' = NoFile
          /\ backups'[FirstUnused(backups)] = resultFile
     /\ (/\ pc = "write_summary"
         /\ pc' = "returned"
         /\ save_fault' = "none"
         /\ Cardinality(Rotated') >= 2) =>
          /\ isfile(resultFile')
          /\ isfile(backups'[1])
          /\ isfile(backups'[2])]_vars

\* the third process has saved: its own and the second process's rename
\* went around the stale .bak.bak to .bak and .bak.bak.bak
C8_Witness ==
  /\ run = 3
  /\ pc = "returned"
  /\ save_fault = "none"
  /\ backups[2] = StaleFile
  /\ Rotated = {1, 3}
  /\ resultFile.kind = "json"

\* the process found result_path to be a file when it started
Resumes == ~flags.check_gt_only /\ isfile(resultFile)

\* C9: a process that finds result_path when it starts loads it, submits no
\* job and calls neither the trusted executor nor the checker, computes the
\* pass@k of the process that wrote the file and, where its save completes,
\* leaves that pass@k in the summary file
C9_ResumeReproducesSummary ==
  [][/\ (pc = "start" /\ Resumes /\ pc' # pc) => (loaded' /\ fault' = "none")
     /\ loaded' =>
          /\ futures' = <<>>
          /\ trusted_calls' = 0
          /\ pc' \notin {"start", "passk", "crashed"} => pass_at_k' = artifact_summary'
          /\ (pc = "write_summary" /\ pc' = "returned" /\ save_fault' = "none") =>
               summaryFile' = JsonFile(artifact_summary')]_vars

\* C10: a failing step of the save phase is the last step of the main
\* thread: it leaves the warning of the except clause and evaluate()
\* returned without exception, and nothing is written or renamed after it
C10_SaveFailureCaught ==
  [][/\ (save_fault = "none" /\ save_fault' # "none") =>
          /\ pc' = "returned"
          /\ fault' = "none"
          /\ save_warning' = save_fault'
     /\ (save_fault # "none" /\ run' = run) =>
          /\ pc' = "returned"
          /\ fault' = "none"
          /\ UNCHANGED <<files, save_warning, save_fault>>]_vars

\* the rename was done and the write of the results file failed: the
\* summary file is not written
C10_Witness ==
  /\ save_fault = "write_result"
  /\ save_warning = "write_result"
  /\ pc = "returned"
  /\ loaded
  /\ isfile(backups[1])
  /\ summaryFile.kind = "json"
  /\ summaryFile.body = artifact_summary

\* pass_at_k holds what lines 214-218 made of `results`
SummaryMade == pc \in {"save", "rename", "makedirs", "chmod", "write_result",
                       "write_summary", "returned"} /\ fault = "none"

\* the number of results of the n-th task of the document
Size(n) == Len(results.eval[n].res)

\* C11: the summary has an entry for k, one of 1, 5, 10, 25 and 100, exactly
\* when every task of the document has at least k results
C11_SummaryKeys ==
  SummaryMade =>
    /\ DOMAIN pass_at_k \subseteq Ks
    /\ \A k \in Ks :
         k \in DOMAIN pass_at_k <=> \A n \in 1..Len(results.eval) : Size(n) >= k

\* one task has three results and the other five: pass@1 is reported and
\* pass@5 is left out
C11_Witness ==
  /\ SummaryMade
  /\ Len(results.eval) = 2
  /\ Size(1) = 3
  /\ Size(2) = 5
  /\ DOMAIN pass_at_k = {1}

\* the number of results of the n-th task whose status is PASS
Correct(n) == Cardinality({j \in 1..Size(n) : results.eval[n].res[j].status = PASS})

\* the binomial coefficient C(n, k)
RECURSIVE Binom(_, _)
Binom(n, k) ==
  IF k = 0 THEN 1
  ELSE IF k > n THEN 0
  ELSE (Binom(n - 1, k - 1) * n) \div k

\* C12: for the n results of a task of the document, c of them correct, and
\* every k from 1 to n, the estimate is 1 when n - c < k and 1 - C(n-c, k) /
\* C(n, k) otherwise; it does not decrease from k to k + 1, it is 0 when
\* c = 0 and 1 when c = n; and the summary of a document of one task
\* reports this estimate
C12_EstimatorShape ==
  /\ \A t \in 1..Len(results.eval) :
       LET n == Size(t)
           c == Correct(t)
       IN \A k \in 1..n :
            /\ estimator(n, c, k) =
                 IF n - c < k THEN <<1, 1>>
                 ELSE RatSub(<<1, 1>>, Norm(<<Binom(n - c, k), Binom(n, k)>>))
            /\ k < n => RatLeq(estimator(n, c, k), estimator(n, c, k + 1))
            /\ c = 0 => estimator(n, c, k) = <<0, 1>>
            /\ c = n => estimator(n, c, k) = <<1, 1>>
  /\ SummaryMade /\ Len(results.eval) = 1 =>
       \A k \in DOMAIN pass_at_k : pass_at_k[k] = estimator(Size(1), Correct(1), k)

\* one task, five results, two of them correct: pass@1 = 2/5, pass@5 = 1
C12_Witness ==
  /\ SummaryMade
  /\ Len(results.eval) = 1
  /\ Size(1) = 5
  /\ Correct(1) = 2
  /\ pass_at_k[1] = <<2, 5>>
  /\ pass_at_k[5] = <<1, 1>>

\* C13: in a process whose get_groundtruth found the cache file and removed
\* it, which it does under check_gt_only alone, trusted_exec is not called,
\* no cache file is written and no mapping is returned
C13_VerifyOnlyDeletesOnly ==
  cache_removed =>
    /\ trusted_calls = 0
    /\ ~isfile(cacheFile)
    /\ expected_time = {}

\* a call of trusted_exec in this process raised: get_groundtruth computes
\* from an empty mapping, and every call that returns adds a task to it
TrustedExecFailed == trusted_calls > Cardinality(expected_time)

\* C14: once a trusted_exec has raised, the exception has left evaluate();
\* the cache file, which is only ever written with a time for every problem,
\* is not there, no sample has been read and no job submitted, and nothing
\* has been saved
C14_GroundtruthFailureFatal ==
  /\ isfile(cacheFile) => cacheFile.body = problems
  /\ TrustedExecFailed =>
       /\ pc = "crashed"
       /\ fault = "TrustedExecError"
       /\ ~isfile(cacheFile)
       /\ pos = 0
       /\ futures = <<>>
       /\ wpc = "idle"
       /\ pass_at_k = NoPassAtK

\* the reference solution of A ran, the one of B raised
C14_Witness ==
  /\ problems = {"A", "B"}
  /\ expected_time = {"A"}
  /\ trusted_calls = 2
  /\ fault = "TrustedExecError"
  /\ pc = "crashed"

\* the results the drain loop has appended so far
Appended ==
  SumOver([i \in 1..Len(eval_results) |-> Len(eval_results[i].list)],
          1..Len(eval_results))

\* C15: whenever as_completed hands a finished future to the drain loop,
\* the loop appends a result for that job and stays in the loop, with no
\* exception under way
C15_FaultsBecomeResults ==
  [][(pc = "drain" /\ \E j \in 1..Len(futures) :
                        futures'[j].yielded /\ ~futures[j].yielded) =>
       /\ pc' = "drain"
       /\ fault' = "none"
       /\ Appended' = Appended + 1]_vars

\* C16: when an assert of lines 169-170 fails, no job has been submitted to
\* the pool
C16_AssertsBeforeDispatch ==
  fault = "AssertionError" => futures = <<>>

\* the samples of task t among those read so far, in file order
ValidReadOf(t) == SelectSeq(ValidRead, LAMBDA sample : sample.task_id = t)

\* C17: at every point of the loop over the samples, the jobs of a task are
\* its valid samples read so far, in file order, and the j-th of them has
\* completion index j - 1, whatever samples lie between them
C17_CompletionIndices ==
  \A t \in Tasks :
    /\ Len(JobsOf(t)) = Len(ValidReadOf(t))
    /\ completion_id[t] = Len(JobsOf(t))
    /\ \A j \in 1..Len(JobsOf(t)) :
         /\ JobsOf(t)[j].completion_id = j - 1
         /\ JobsOf(t)[j]._identifier = ValidReadOf(t)[j]._identifier

\* the samples of A lie around one of B: A has the indices 0 and 1, B has 0
C17_Witness ==
  /\ problems = {"A", "B"}
  /\ pos = 3
  /\ [j \in 1..3 |-> futures[j].task_id] = <<"A", "B", "A">>
  /\ [j \in 1..3 |-> futures[j].completion_id] = <<0, 0, 1>>

\* the submitted jobs whose check hangs
Hung == {j \in 1..Len(futures) : futures[j]._identifier \in hangs}

\* the main thread has computed or saved results
ResultsMade == pc \in {"passk", "save", "rename", "makedirs", "chmod",
                       "write_result", "write_summary", "returned"}

\* only hung jobs are outstanding, as many as line 174 counted
OnlyHungLeft ==
  /\ remainings # {}
  /\ remainings \subseteq hangs
  /\ last_size = Cardinality(remainings)

\* C18: a submitted job whose check hangs stays running and outstanding,
\* and is submitted once; the main thread gets to no results and no file is
\* written; a poll that begins with only hung jobs outstanding ends with a
\* warning; and once the thread runs, warnings are written again and again
C18_HungJobWarnsForever ==
  /\ [](\A j \in Hung :
          /\ futures[j].state = "running"
          /\ futures[j]._identifier \in remainings
          /\ \A i \in 1..Len(futures) :
               futures[i]._identifier = futures[j]._identifier => i = j)
  /\ [](Hung # {} => ~ResultsMade /\ ~isfile(resultFile) /\ ~isfile(summaryFile))
  /\ [][OnlyHungLeft =>
          /\ wpc = "w_sleep" => wpc' \in {"w_sleep", "w_empty"}
          /\ wpc = "w_empty" => wpc' \in {"w_empty", "w_warn"}]_vars
  /\ [](Hung # {} /\ wpc # "idle" => []<>(stuck_warning # NoWarn))

\* the job that hangs is the only one outstanding, and the thread has
\* written a warning and sleeps again
C18_Witness ==
  /\ Len(futures) = 2
  /\ Hung = {2}
  /\ remainings = {2}
  /\ pc = "drain"
  /\ warned
  /\ wpc = "w_sleep"

\* the main thread is out of the drain loop
LoopStopped == pc \in {"pool_exit", "crashed"} \/ ResultsMade

\* C19: once the drain loop has stopped, in whatever way, the thread that
\* was started comes to its end
C19_WatchdogEnds ==
  (LoopStopped /\ wpc # "idle") ~> (wpc = "w_done")

\* C20: in a process that loaded its document from result_path, which is
\* thus a file when the save phase begins, a failed step of the save phase
\* leaves that document at result_path
C20_FailedSaveKeepsArtifact ==
  loaded /\ save_fault # "none" => resultFile = JsonFile(results)

====
